---- MODULE Spec2Model ----
(***************************************************************************)
(* Model of container/c/title_interceptor.c: an LD_PRELOAD shim around     *)
(* write(2) that forwards every call to the real write and, when           *)
(* CATNIP_TITLE_INTERCEPT is "1", scans what was written to stdout/stderr  *)
(* for OSC 0 / OSC 2 title sequences and appends them to a log file.       *)
(*                                                                         *)
(* Buffer offsets are 0-based as in C: offset k of a sequence s is         *)
(* s[k + 1].  Bytes are the integers 0..255.                               *)
(***************************************************************************)
EXTENDS Integers, Sequences, FiniteSets, TLC

\* -------------------------------------------------------------- bytes
ESC == 27
BEL == 7
RBRACKET == 93
BACKSLASH == 92
DIGIT0 == 48
DIGIT2 == 50
SEMI == 59
SPACE == 32
TILDE == 126

\* The title length cap (line 84) and the size of log_entry (line 117).
MAX_TITLE == 200
LOG_ENTRY_SIZE == 1024
\* strftime("%Y-%m-%d %H:%M:%S") always yields 19 characters.
TIMESTAMP_LEN == 19
STDOUT_FILENO == 1
STDERR_FILENO == 2

\* size_t is modelled with SizeBits bits; every length of the model is far
\* below 2^SizeBits - 4, so the wrap-around of count - 4 is the code's.
SizeBits == 16
SizeMod == 2 ^ SizeBits

\* a - b in size_t arithmetic
SizeSub(a, b) == (a - b + SizeMod) % SizeMod

\* ------------------------------------------------------------ scanner
\* data[k] of the C code; only used for mapped offsets
Rd(data, k) == data[k + 1]

\* The && chain of lines 57-59 at offset i, evaluated left to right with
\* short circuit over memory `data` (reading an offset >= Len(data) is a
\* fault).  hit: all four bytes match; last: the highest offset examined;
\* fault: the chain touched unmapped memory.
IsTitleDigit_Only0(b) == b = DIGIT0

\* line 58
IsTitleDigit(b) == b = DIGIT0 \/ b = DIGIT2

MarkerProbe(data, i) ==
  LET mapped(k) == k < Len(data)
      miss(k)  == [hit |-> FALSE, last |-> k, fault |-> FALSE]
      trap(k)  == [hit |-> FALSE, last |-> k, fault |-> TRUE]
  IN  IF ~mapped(i) THEN trap(i)
      ELSE IF Rd(data, i) # ESC THEN miss(i)
      ELSE IF ~mapped(i + 1) THEN trap(i + 1)
      ELSE IF Rd(data, i + 1) # RBRACKET THEN miss(i + 1)
      ELSE IF ~mapped(i + 2) THEN trap(i + 2)
      ELSE IF ~IsTitleDigit(Rd(data, i + 2)) THEN miss(i + 2)
      ELSE IF ~mapped(i + 3) THEN trap(i + 3)
      ELSE IF Rd(data, i + 3) # SEMI THEN miss(i + 3)
      ELSE [hit |-> TRUE, last |-> i + 3, fault |-> FALSE]

\* The terminator tests of lines 67-72 at offset e (e < count).
IsBelAt(data, e) == Rd(data, e) = BEL

IsStAt(data, count, e) ==
  e < count - 1 /\ Rd(data, e) = ESC /\ Rd(data, e + 1) = BACKSLASH

IsTerminatorAt(data, count, e) == IsBelAt(data, e) \/ IsStAt(data, count, e)

Min(S) == CHOOSE x \in S : \A y \in S : x <= y

\* The while loop of lines 66-77, started with title_end = s: the value of
\* title_end when it exits, which is the first offset from s on that holds
\* a terminator, or count when there is none (s itself when s >= count).
FindTerminator(data, count, s) ==
  LET terms == {e \in s..(count - 1) : IsTerminatorAt(data, count, e)}
  IN  IF s >= count THEN s
      ELSE IF terms = {} THEN count
      ELSE Min(terms)

\* The highest offset the while loop read, started at s and exited at e
\* (-1 when it read nothing).
TerminatorReads(data, count, s, e) ==
  IF s >= count THEN -1
  ELSE IF e >= count THEN count - 1
  ELSE IF IsBelAt(data, e) THEN e
  ELSE e + 1

TitleLen_NoCap(title_start, title_end) == title_end - title_start

\* lines 81-86
TitleLen(title_start, title_end) ==
  LET title_len == title_end - title_start
  IN  IF title_len > MAX_TITLE THEN MAX_TITLE ELSE title_len

\* memcpy of line 89: title_len bytes from offset title_start
CopyTitle(data, title_start, title_len) ==
  SubSeq(data, title_start + 1, title_start + title_len)

\* title[] is an array of char: a byte as the (signed) char the comparison
\* of line 95 sees.  With an unsigned char the bytes >= 128 fail the
\* "> 126" test instead of the "< 32" test; the outcome is the same.
AsChar(b) == IF b >= 128 THEN b - 256 ELSE b

BadChar_Allows127(c) == (c < 32 \/ c > 127) /\ c # SPACE

\* lines 95-96 for one byte: TRUE when the byte invalidates the title
BadChar(c) == (c < 32 \/ c > 126) /\ c # SPACE

\* lines 93-101
ValidTitle(title) == \A j \in 1..Len(title) : ~BadChar(AsChar(title[j]))

\* What "%s" prints of a char array: the bytes up to the first NUL.
CString(s) ==
  LET nul == {k \in 1..Len(s) : s[k] = 0}
  IN  IF nul = {} THEN s ELSE SubSeq(s, 1, Min(nul) - 1)

\* ---------------------------------------------------- the scan loop
Max(a, b) == IF a >= b THEN a ELSE b

Complete_AcceptsEnd(title_start, title_end, count) ==
  title_end <= count /\ title_end > title_start

\* line 80: a terminator was found and the payload is not empty
Complete(title_start, title_end, count) ==
  title_end < count /\ title_end > title_start

\* The body of the for loop for a marker found at offset i (lines 62-103):
\* the candidate's title_start, title_end, and the title it yields.
\* yields: the test of line 80 and "valid && title_len > 0" of line 103.
Candidate(data, count, i) ==
  LET title_start == i + 4
      title_end   == FindTerminator(data, count, title_start)
      complete    == Complete(title_start, title_end, count)
      title_len   == TitleLen(title_start, title_end)
      title       == IF complete THEN CopyTitle(data, title_start, title_len)
                     ELSE <<>>
  IN  [at     |-> i,
       start  |-> title_start,
       end    |-> title_end,
       last   |-> TerminatorReads(data, count, title_start, title_end),
       title  |-> title,
       yields |-> complete /\ ValidTitle(title) /\ Len(title) > 0]

\* The elements of a finite set of records with distinct `at`, by
\* increasing `at`.
RECURSIVE InOrder(_)
InOrder(S) ==
  IF S = {} THEN <<>>
  ELSE LET c == CHOOSE x \in S : \A y \in S : x.at <= y.at
       IN  <<c>> \o InOrder(S \ {c})

\* The for loop of line 56 over memory `data`, of which the first `count`
\* bytes are the ones to scan.  The loop bound count - 4 is computed in
\* size_t.  i advances by one on every iteration, whatever the body did,
\* and the body changes none of i, data, count: the loop visits every
\* index below the bound in turn, up to the first one whose probe reads
\* unmapped memory (offset Len(data) at the latest).  At a mapped index
\* that does not hold ESC the probe reads that one byte and misses, so
\* only the other indices (sites) are probed in full here.  The logger
\* called from the body is run by LogTitles on the titles found, in order.
\*   found:   the candidates that yield a title, by increasing offset
\*   maxRead: the highest offset of data read (-1: none)
\*   fault:   the loop read unmapped memory
scan_for_title_sequences(data, count) ==
  LET bound   == SizeSub(count, 4)
      top     == IF bound - 1 < Len(data) THEN bound - 1 ELSE Len(data)
      sites   == {i \in 0..top : i = Len(data) \/ Rd(data, i) = ESC}
      probe   == [i \in sites |-> MarkerProbe(data, i)]
      faults  == {i \in sites : probe[i].fault}
      stop    == IF faults = {} THEN top ELSE Min(faults)
      hits    == {i \in sites : i <= stop /\ probe[i].hit}
      cands   == {Candidate(data, count, i) : i \in hits}
      read    == {stop} \cup {probe[i].last : i \in {j \in sites : j <= stop}}
                   \cup {c.last : c \in cands}
  IN  [found   |-> InOrder({c \in cands : c.yields}),
       maxRead |-> CHOOSE m \in read : \A k \in read : k <= m,
       fault   |-> faults # {}]

\* ------------------------------------------------------------- logger
\* The world as the logger finds it during one call: whether open() of
\* the log file succeeds, and what getcwd and readlink return (ok = FALSE:
\* the call failed).
\* A path is a C string; the model keeps its text's name and its strlen.
UnknownCwd == [text |-> "/unknown", strlen |-> 8]

\* get_current_working_directory (lines 33-49): getcwd, else readlink of
\* /proc/self/cwd, else the literal "/unknown".
get_current_working_directory(getcwdRes, readlinkRes) ==
  IF getcwdRes.ok THEN getcwdRes.path
  ELSE IF readlinkRes.ok THEN readlinkRes.path
  ELSE UnknownCwd

\* the number of characters "%d" prints for a positive pid
RECURSIVE Digits(_)
Digits(n) == IF n < 10 THEN 1 ELSE 1 + Digits(n \div 10)

\* snprintf's return value for "%s|%d|%s|%s\n" (lines 118-119)
LogLen(pid, cwd, title) ==
  TIMESTAMP_LEN + 1 + Digits(pid) + 1 + cwd.strlen + 1
    + Len(CString(title)) + 1

\* line 121
Fits(log_len) == log_len > 0 /\ log_len < LOG_ENTRY_SIZE

\* open() returns the lowest descriptor not in use
LowestFree(fds) ==
  CHOOSE f \in 0..Cardinality(fds) :
    f \notin fds /\ \A g \in 0..(f - 1) : g \in fds

\* line 123: the record is written with original_write, not with write.
\* entered: how many times the call entered the shim's write on the way.
LogWrite(log_fd, log_len) ==
  [sys     |-> <<[op |-> "write", fd |-> log_fd, len |-> log_len,
                  via |-> "original_write"]>>,
   entered |-> 0]

CloseAfterLog_OnlyWritten(fds, log_fd, fits) ==
  IF fits THEN fds \ {log_fd} ELSE fds

\* line 125: close(log_fd), whether the line was written or not; the
\* descriptors open afterwards
CloseAfterLog(fds, log_fd, fits) == fds \ {log_fd}

\* Lines 104-126 for one yielded title.  fds: the descriptors the process
\* has open.  Result: the descriptors open afterwards, the system calls
\* made, the records appended to the log file, the shim entries caused.
LogTitle(fds, w, pid, title) ==
  LET cwd     == get_current_working_directory(w.getcwd, w.readlink)
      log_fd  == IF w.openOK THEN LowestFree(fds) ELSE -1
      log_len == LogLen(pid, cwd, title)
      fits    == Fits(log_len)
      wr      == LogWrite(log_fd, log_len)
  IN  IF log_fd >= 0
        THEN [fds      |-> CloseAfterLog(fds \cup {log_fd}, log_fd, fits),
              sys      |-> <<[op |-> "open", fd |-> log_fd]>>
                             \o (IF fits THEN wr.sys ELSE <<>>)
                             \o <<[op |-> "close", fd |-> log_fd]>>,
              appended |-> IF fits
                             THEN <<[pid |-> pid, cwd |-> cwd.text,
                                     title |-> CString(title)]>>
                             ELSE <<>>,
              entered  |-> IF fits THEN wr.entered ELSE 0]
        ELSE [fds      |-> fds,
              sys      |-> <<[op |-> "open", fd |-> -1]>>,
              appended |-> <<>>,
              entered  |-> 0]

\* The logger run on each yielded title, in the order the loop found them.
RECURSIVE LogTitles(_, _, _, _)
LogTitles(found, fds, w, pid) ==
  IF found = <<>>
    THEN [fds |-> fds, sys |-> <<>>, appended |-> <<>>, entered |-> 0]
    ELSE LET one  == LogTitle(fds, w, pid, Head(found).title)
             rest == LogTitles(Tail(found), one.fds, w, pid)
         IN  [fds      |-> rest.fds,
              sys      |-> one.sys \o rest.sys,
              appended |-> one.appended \o rest.appended,
              entered  |-> one.entered + rest.entered]

\* ------------------------------------------------------------- inputs
Marker(d) == <<ESC, RBRACKET, d, SEMI>>
Run(b, k) == [j \in 1..k |-> b]
ST == <<ESC, BACKSLASH>>

\* Bounds of the model.
MaxLog == 1          \* calls start while the log holds fewer records
NThreads == 2        \* threads of the concurrent specification
MaxSlack == 1        \* mapped bytes behind the caller's buffer
LongCwdLen == 797    \* a working directory that leaves room for 199 bytes

Loader == 0
Threads == 1..NThreads
Procs == {Loader} \cup Threads

\* The value getenv returns: set = FALSE is the NULL pointer.
EnvUnset == [set |-> FALSE, val |-> ""]
EnvValues ==
  {EnvUnset, [set |-> TRUE, val |-> "1"], [set |-> TRUE, val |-> "0"],
   [set |-> TRUE, val |-> "11"]}

Pids == {4242}

NoPath == [ok |-> FALSE, path |-> [text |-> "", strlen |-> 0]]
Worlds ==
  LET short == [ok |-> TRUE, path |-> [text |-> "/w", strlen |-> 2]]
      link  == [ok |-> TRUE, path |-> [text |-> "/proc-cwd", strlen |-> 9]]
      long  == [ok |-> TRUE, path |-> [text |-> "/long", strlen |-> LongCwdLen]]
  IN  {[openOK |-> o, getcwd |-> g, readlink |-> r] :
         o \in BOOLEAN, g \in {short, long}, r \in {NoPath}}
      \cup {[openOK |-> o, getcwd |-> NoPath, readlink |-> r] :
         o \in BOOLEAN, r \in {link, NoPath}}

\* What lies behind the caller's buffer in memory, up to the first
\* unmapped byte.
Slack == UNION {[1..k -> {ESC, RBRACKET}] : k \in 0..MaxSlack}

\* A call's arguments: count is the length of buf; a NULL buf has count 0
\* or a count the kernel rejects.
Arg(fd, buf, cuts) ==
  [fd |-> fd, buf |-> buf, isNull |-> FALSE, count |-> Len(buf), cuts |-> cuts]
NullArg(fd, count) ==
  [fd |-> fd, buf |-> <<>>, isNull |-> TRUE, count |-> count, cuts |-> {}]

\* The values the real write may return for a call: -1, or the number of
\* bytes accepted, from 0 to count (the short counts enumerated are the
\* first six, the last three and the ends of the buffer's parts).
Results(a) ==
  IF a.isNull THEN (IF a.count = 0 THEN {-1, 0} ELSE {-1})
  ELSE {-1} \cup {k \in 0..a.count :
                    k <= 6 \/ k >= a.count - 2 \/ k \in a.cuts}

\* Buffers of the sequential specification.
Hi == <<104, 105>>              \* "hi"
OneTitle == Marker(DIGIT0) \o Hi \o <<BEL>>
TwoTitles == Marker(DIGIT2) \o <<97>> \o ST \o Marker(DIGIT0) \o Hi \o <<BEL>>
SpecBufs ==
  {<<>>, <<97>>, <<104, 105, 10>>, OneTitle, TwoTitles,
   Marker(DIGIT0) \o <<1>> \o <<BEL>>,
   Marker(DIGIT2) \o <<SPACE, 127>> \o ST,
   Marker(DIGIT0) \o Run(120, MAX_TITLE) \o <<200>> \o <<BEL>>,
   Marker(DIGIT0) \o Run(120, MAX_TITLE) \o <<BEL>> \o Marker(DIGIT2) \o Hi \o ST}
SpecArgs ==
  {Arg(fd, b, {}) : fd \in {STDOUT_FILENO, STDERR_FILENO, 3}, b \in SpecBufs}
    \cup {NullArg(STDOUT_FILENO, c) : c \in {0, 5}}

\* Buffers of the concurrent specification.
ConcArgs == {Arg(STDOUT_FILENO, <<>>, {}), Arg(3, <<97>>, {})}

\* Buffers of the scanner's specification: one or two parts, each a lead,
\* a payload and an end.
Leads ==
  {<<>>, Marker(DIGIT0), Marker(DIGIT2), Marker(49), <<ESC, RBRACKET, DIGIT0>>}
Payloads ==
  {<<>>, <<97>>, <<SPACE, TILDE>>, <<1>>, <<31>>, <<127>>, <<200>>,
   <<97, 0, 97>>,
   Run(120, MAX_TITLE - 1), Run(120, MAX_TITLE), Run(120, MAX_TITLE + 1),
   Run(120, MAX_TITLE - 1) \o <<1>>, Run(120, MAX_TITLE) \o <<1>>,
   Run(120, MAX_TITLE) \o <<200, 97>>}
Ends == {<<>>, <<BEL>>, ST, <<ESC>>}
Seconds ==
  {<<>>, <<97>>, <<BEL>>, Marker(DIGIT2) \o <<97>> \o <<BEL>>,
   Marker(DIGIT0) \o Hi \o ST}
ScanParts ==
  {[first |-> l \o p \o e, second |-> s] :
     l \in Leads, p \in Payloads, e \in Ends, s \in Seconds}
ScanArgs ==
  {Arg(fd, sp.first \o sp.second, {Len(sp.first)}) :
     fd \in {STDOUT_FILENO, STDERR_FILENO}, sp \in ScanParts}

\* -------------------------------------------------------------- state
VARIABLES
  env,             \* the value of CATNIP_TITLE_INTERCEPT in the environment
  original_write,  \* the static pointer of line 15: "NULL" or "libc_write"
  init_once,       \* the pthread_once_t of line 18: "INIT", "BUSY", "DONE"
  resolved,        \* how many times init_original_write called dlsym
  log,             \* the records in the log file, oldest first
  openFds,         \* the descriptors the process has open
  pid,             \* what getpid returns
  alive,           \* "running", "exited" (exit(1)) or "fault" (SIGSEGV)
  pc,              \* where each thread (and the loader) is
  cur              \* each thread's current (or last) call of write

vars ==
  <<env, original_write, init_once, resolved, log, openFds, pid, alive, pc, cur>>

\* A thread's call of write.  arg: its arguments; n: what original_write
\* returned; forwarded: the calls of original_write for the caller's data;
\* asked: whether getenv was called (line 146), envSeen: what it returned;
\* scanned: whether the scanner ran, found: the
\* candidates it yielded, maxRead: the highest buffer offset it read;
\* world: what the logger found; appended: the records it appended; sys:
\* the calls made below the shim, in order; entered: the entries into the
\* shim's write; returned, ret: the value returned to the caller;
\* repeatsOff: see RepeatsOff.
NoWorld == [openOK |-> FALSE, getcwd |-> NoPath, readlink |-> NoPath]
NoCall ==
  [arg |-> NullArg(0, 0), n |-> 0, forwarded |-> 0, envSeen |-> EnvUnset,
   asked |-> FALSE, scanned |-> FALSE, found |-> <<>>, appended |-> <<>>, sys |-> <<>>,
   maxRead |-> -1, entered |-> 0, world |-> NoWorld,
   returned |-> FALSE, ret |-> 0, repeatsOff |-> FALSE]

Enabled_AnyValue(e) == e.set

\* strcmp(enabled, "1") == 0 on a non-NULL value (lines 147, 164)
Enabled(e) == e.set /\ e.val = "1"

\* Whether a call with arguments a repeats the thread's previous call c,
\* and c returned after it found the variable unset or not "1".
RepeatsOff(c, a) ==
  /\ c.returned
  /\ c.arg = a
  /\ c.asked
  /\ ~(c.envSeen.set /\ c.envSeen.val = "1")

InitCommon ==
  /\ log = <<>>
  /\ openFds = {0, 1, 2}
  /\ pid \in Pids
  /\ alive = "running"
  /\ resolved = 0

\* The process before the library's constructor has run.
Init ==
  /\ InitCommon
  /\ env \in EnvValues
  /\ original_write = "NULL"
  /\ init_once = "INIT"
  /\ pc = [p \in Procs |-> IF p = Loader THEN "load" ELSE "idle"]
  /\ cur = [t \in Threads |-> NoCall]

\* ---------------------------------------------------- symbol resolver
\* pthread_once(&init_once, ...): a caller passes when the routine has
\* completed, runs the routine when nobody has started it, and otherwise
\* blocks.
OncePasses(state) == state = "DONE"
OnceRuns_NoLock(state) == state # "DONE"
OnceRuns(state) == state = "INIT"

AfterOnce(p) == IF p = Loader THEN "done" ELSE "fwd"

\* The constructor init_title_interceptor (lines 160-170).
init_title_interceptor ==
  /\ alive = "running"
  /\ pc[Loader] = "load"
  /\ pc' = [pc EXCEPT ![Loader] = IF Enabled(env) THEN "once" ELSE "done"]
  /\ UNCHANGED <<env, original_write, init_once, resolved, log, openFds, pid,
                 alive, cur>>

\* pthread_once as called at line 136 or 169.
Once(p) ==
  /\ alive = "running"
  /\ pc[p] = "once"
  /\ OncePasses(init_once) \/ OnceRuns(init_once)
  /\ IF OnceRuns(init_once)
       THEN /\ init_once' = "BUSY"
            /\ pc' = [pc EXCEPT ![p] = "init"]
       ELSE /\ init_once' = init_once
            /\ pc' = [pc EXCEPT ![p] = AfterOnce(p)]
  /\ UNCHANGED <<env, original_write, resolved, log, openFds, pid, alive, cur>>

\* init_original_write (lines 24-30), run by the thread that won
\* pthread_once: dlsym finds the next write or not; not found is exit(1).
init_original_write(p) ==
  /\ alive = "running"
  /\ pc[p] = "init"
  /\ resolved' = resolved + 1
  /\ \E found \in BOOLEAN :
       IF found
         THEN /\ original_write' = "libc_write"
              /\ init_once' = "DONE"
              /\ pc' = [pc EXCEPT ![p] = AfterOnce(p)]
              /\ alive' = alive
         ELSE /\ original_write' = "NULL"
              /\ alive' = "exited"
              /\ UNCHANGED <<init_once, pc>>
  /\ UNCHANGED <<env, log, openFds, pid, cur>>

\* --------------------------------------------------------------- shim
\* A thread calls write(fd, buf, count) (line 134).
Call(t, args) ==
  /\ alive = "running"
  /\ pc[t] = "idle"
  /\ Len(log) < MaxLog
  /\ \E a \in args :
       cur' = [cur EXCEPT ![t] =
                 [NoCall EXCEPT !.arg = a, !.entered = 1,
                                !.repeatsOff = RepeatsOff(cur[t], a)]]
  /\ pc' = [pc EXCEPT ![t] = "once"]
  /\ UNCHANGED <<env, original_write, init_once, resolved, log, openFds, pid,
                 alive>>

\* Line 139: the call through original_write.  A call through a NULL
\* pointer is a fault.
Forward(t) ==
  /\ alive = "running"
  /\ pc[t] = "fwd"
  /\ IF original_write = "NULL"
       THEN /\ alive' = "fault"
            /\ UNCHANGED <<pc, cur>>
       ELSE /\ \E n \in Results(cur[t].arg) :
                 cur' = [cur EXCEPT ![t].n = n,
                                    ![t].forwarded = @ + 1,
                                    ![t].sys = Append(@,
                                      [op |-> "forward", fd |-> cur[t].arg.fd,
                                       buf |-> cur[t].arg.buf,
                                       isNull |-> cur[t].arg.isNull,
                                       count |-> cur[t].arg.count,
                                       via |-> original_write])]
            /\ pc' = [pc EXCEPT ![t] = "scan"]
            /\ alive' = alive
  /\ UNCHANGED <<env, original_write, init_once, resolved, log, openFds, pid>>

\* The test of lines 142-143.
WantsScan(a, result) ==
  /\ a.fd = STDOUT_FILENO \/ a.fd = STDERR_FILENO
  /\ ~a.isNull
  /\ a.count > 0
  /\ result > 0

\* The memory the scan may find behind buf.  A scan that stays inside the
\* buffer reads none of it, so it is the same whatever lies there; only a
\* scan that runs off the buffer's end sees the bytes behind it.
BehindFor(buf, count) ==
  IF scan_for_title_sequences(buf, count).fault THEN Slack ELSE {<<>>}

\* The worlds the logger may find; it looks at none when no title is found.
WorldsFor(found) == IF found = <<>> THEN {NoWorld} ELSE Worlds

\* Lines 142-156: the test, getenv, the scan with its logging, the return.
\* The scan is over the memory that starts at buf (the buffer followed by
\* whatever is mapped behind it) with count = result.  A scan that reads
\* unmapped memory ends the process: the call never returns.
ScanAndReturn(t) ==
  /\ alive = "running"
  /\ pc[t] = "scan"
  /\ LET c == cur[t]
     IN  IF WantsScan(c.arg, c.n)
           THEN
             IF Enabled(env)
               THEN \E slack \in BehindFor(c.arg.buf, c.n) :
                      LET sc == scan_for_title_sequences(c.arg.buf \o slack, c.n)
                      IN  IF sc.fault
                            THEN /\ alive' = "fault"
                                 /\ cur' = [cur EXCEPT ![t].envSeen = env,
                                                       ![t].asked = TRUE,
                                                       ![t].scanned = TRUE,
                                                       ![t].maxRead = sc.maxRead]
                                 /\ UNCHANGED <<pc, log, openFds>>
                            ELSE \E w \in WorldsFor(sc.found) :
                                   LET lg == LogTitles(sc.found, openFds, w, pid)
                                   IN  /\ cur' = [cur EXCEPT
                                                    ![t].envSeen = env,
                                                    ![t].asked = TRUE,
                                                    ![t].scanned = TRUE,
                                                    ![t].maxRead = sc.maxRead,
                                                    ![t].found = sc.found,
                                                    ![t].world = w,
                                                    ![t].appended = lg.appended,
                                                    ![t].sys = @ \o lg.sys,
                                                    ![t].entered = @ + lg.entered,
                                                    ![t].returned = TRUE,
                                                    ![t].ret = c.n]
                                       /\ log' = log \o lg.appended
                                       /\ openFds' = lg.fds
                                       /\ pc' = [pc EXCEPT ![t] = "idle"]
                                       /\ alive' = alive
               ELSE /\ cur' = [cur EXCEPT ![t].envSeen = env,
                                          ![t].asked = TRUE,
                                          ![t].returned = TRUE,
                                          ![t].ret = c.n]
                    /\ pc' = [pc EXCEPT ![t] = "idle"]
                    /\ UNCHANGED <<log, openFds, alive>>
           ELSE /\ cur' = [cur EXCEPT ![t].returned = TRUE, ![t].ret = c.n]
                /\ pc' = [pc EXCEPT ![t] = "idle"]
                /\ UNCHANGED <<log, openFds, alive>>
  /\ UNCHANGED <<env, original_write, init_once, resolved, pid>>

\* The host program changes the variable (setenv, unsetenv).
SetEnv ==
  /\ alive = "running"
  /\ \E v \in EnvValues : v # env /\ env' = v
  /\ UNCHANGED <<original_write, init_once, resolved, log, openFds, pid, alive,
                 pc, cur>>

\* ----------------------------------------------------- specifications
\* One thread calling write again and again, the environment changing.
Next ==
  \/ init_title_interceptor
  \/ \E p \in {Loader, 1} : Once(p)
  \/ \E p \in {Loader, 1} : init_original_write(p)
  \/ Call(1, SpecArgs)
  \/ Forward(1)
  \/ ScanAndReturn(1)
  \/ SetEnv

Spec == Init /\ [][Next]_vars

\* Several threads and the loader.
NextConc ==
  \/ init_title_interceptor
  \/ \E p \in Procs : Once(p)
  \/ \E p \in Procs : init_original_write(p)
  \/ \E t \in Threads : Call(t, ConcArgs)
  \/ \E t \in Threads : Forward(t)
  \/ \E t \in Threads : ScanAndReturn(t)
  \/ SetEnv

SpecConc == Init /\ [][NextConc]_vars

\* One call of write on a buffer of ScanArgs, in a process whose
\* constructor found the toggle on and resolved the real write.
InitScan ==
  /\ InitCommon
  /\ env = [set |-> TRUE, val |-> "1"]
  /\ original_write = "libc_write"
  /\ init_once = "DONE"
  /\ pc = [p \in Procs |-> IF p = Loader THEN "done"
                           ELSE IF p = 1 THEN "fwd" ELSE "idle"]
  /\ \E a \in ScanArgs :
       cur = [t \in Threads |->
                IF t = 1 THEN [NoCall EXCEPT !.arg = a, !.entered = 1]
                ELSE NoCall]

NextScan ==
  \/ Forward(1)
  \/ ScanAndReturn(1)

SpecScan == InitScan /\ [][NextScan]_vars

\* ------------------------------------------------- the claims' terms
\* The sequences as the specification describes them, stated on the bytes
\* of the caller's buffer (offset k is buf[k + 1]) and not by the scanner.
IsOne(e) == e.set /\ e.val = "1"
StdFd(fd) == fd = 1 \/ fd = 2
Printable(b) == b >= 32 /\ b <= 126
AllPrintable(s) == \A k \in 1..Len(s) : Printable(s[k])

\* a leading marker ESC ] 0 ; or ESC ] 2 ; at offset i of the first n bytes
LeadAt(buf, n, i) ==
  /\ i >= 0 /\ i + 3 < n
  /\ buf[i + 1] = 27 /\ buf[i + 2] = 93
  /\ buf[i + 3] \in {48, 50} /\ buf[i + 4] = 59
LeadOffsets(buf, n) == {i \in 0..(n - 4) : LeadAt(buf, n, i)}

\* a terminator (BEL, or ESC backslash) at offset e of the first n bytes
EndAt(buf, n, e) ==
  /\ e < n
  /\ \/ buf[e + 1] = 7
     \/ e + 1 < n /\ buf[e + 1] = 27 /\ buf[e + 2] = 92
EndsFrom(buf, n, i) == {e \in (i + 4)..(n - 1) : EndAt(buf, n, e)}
FirstEnd(buf, n, i) ==
  CHOOSE e \in EndsFrom(buf, n, i) : \A f \in EndsFrom(buf, n, i) : e <= f

\* the payload bytes of the candidate at i that are kept: at most 200
Kept(buf, n, i) ==
  LET len == FirstEnd(buf, n, i) - (i + 4)
  IN  SubSeq(buf, i + 5, i + 4 + (IF len > 200 THEN 200 ELSE len))

\* buf is one marker, a payload to log and one terminator of tl bytes
SinglePayload(buf, tl) == SubSeq(buf, 5, Len(buf) - tl)
IsSingle(buf, tl) ==
  /\ Len(buf) >= 5 + tl
  /\ LeadAt(buf, Len(buf), 0)
  /\ \/ tl = 1 /\ buf[Len(buf)] = 7
     \/ tl = 2 /\ buf[Len(buf) - 1] = 27 /\ buf[Len(buf)] = 92
  /\ Len(SinglePayload(buf, tl)) <= 200
  /\ AllPrintable(SinglePayload(buf, tl))

\* the record of title ti can be written in world w
CanLog(w, ti) ==
  w.openOK /\ Fits(LogLen(pid, get_current_working_directory(w.getcwd, w.readlink), ti))

Titles(recs) == [k \in 1..Len(recs) |-> recs[k].title]

\* every record a call appended carries a title its scan yielded
FromFound(c) ==
  /\ Len(c.appended) <= Len(c.found)
  /\ \A k \in 1..Len(c.appended) :
       \E j \in 1..Len(c.found) : c.appended[k].title = c.found[j].title

\* the call of thread t has passed line 139
Forwarded(t) == pc[t] = "scan" \/ cur[t].returned

\* --------------------------------------------------------------- C1
\* C1 (Transparency): a call of the intercepted write calls the original
\* exactly once, with the caller's fd, buffer and count, before anything is
\* scanned or logged, and returns the value n the original returned,
\* whatever the toggle: once the original has returned, the call is not
\* cut short by the scan, and when it has returned its value is n.
C1_Transparency ==
  \A t \in Threads :
    /\ Forwarded(t) =>
         /\ cur[t].forwarded = 1
         /\ Len(cur[t].sys) >= 1
         /\ cur[t].sys[1].op = "forward"
         /\ cur[t].sys[1].fd = cur[t].arg.fd
         /\ cur[t].sys[1].buf = cur[t].arg.buf
         /\ cur[t].sys[1].isNull = cur[t].arg.isNull
         /\ cur[t].sys[1].count = cur[t].arg.count
         /\ \A k \in 2..Len(cur[t].sys) : cur[t].sys[k].op # "forward"
    /\ cur[t].returned => cur[t].ret = cur[t].n
    /\ pc[t] = "scan" => alive # "fault"

\* C1 without its last part: what holds of the calls that do return.
C1_ReturnedCallsTransparent ==
  \A t \in Threads :
    /\ Forwarded(t) =>
         /\ cur[t].forwarded = 1
         /\ cur[t].sys[1].op = "forward"
         /\ cur[t].sys[1].fd = cur[t].arg.fd
         /\ cur[t].sys[1].buf = cur[t].arg.buf
         /\ cur[t].sys[1].count = cur[t].arg.count
    /\ cur[t].returned => cur[t].ret = cur[t].n

\* --------------------------------------------------------------- C2
\* C2 (Partial write / scan bounds): whenever the scanner runs after the
\* original accepted n bytes, it reads only the offsets 0..n-1 of the
\* buffer, for every n >= 1.
C2_ScanWithinWritten ==
  \A t \in Threads : cur[t].scanned => cur[t].maxRead < cur[t].n

\* C2 for n >= 4 only: the part of the claim that the code keeps.
C2_ScanWithinWrittenFrom4 ==
  \A t \in Threads :
    cur[t].scanned /\ cur[t].n >= 4 =>
      cur[t].maxRead < cur[t].n /\ alive # "fault"

\* --------------------------------------------------------------- C3
\* C3 (Single well-formed sequence): with the toggle on and fd stdout or
\* stderr, a fully written buffer that is one marker ESC ] d ; (d = 0 or
\* 2), a non-empty payload of at most 200 printable bytes and one
\* terminator (BEL or ESC backslash) yields exactly one title, the payload;
\* and when the log file opens and the line fits, exactly one record is
\* appended, with that title.
C3_SingleSequence ==
  \A t \in Threads : \A tl \in {1, 2} :
    LET c == cur[t]
        payload == SinglePayload(c.arg.buf, tl)
    IN  ( /\ c.returned /\ IsOne(env) /\ StdFd(c.arg.fd)
          /\ ~c.arg.isNull /\ c.n = c.arg.count
          /\ IsSingle(c.arg.buf, tl) )
        => /\ Len(c.found) = 1
           /\ c.found[1].title = payload
           /\ Len(c.appended) <= 1
           /\ CanLog(c.world, payload) =>
                /\ Len(c.appended) = 1
                /\ c.appended[1].title = payload
                /\ log = c.appended

\* C3's case: an OSC 2 sequence ended by ESC backslash, with a payload of
\* exactly 200 bytes, logged.
C3_Witness ==
  LET c == cur[1]
  IN  /\ c.returned /\ IsOne(env) /\ StdFd(c.arg.fd)
      /\ c.n = c.arg.count
      /\ IsSingle(c.arg.buf, 2)
      /\ c.arg.buf[3] = 50
      /\ Len(SinglePayload(c.arg.buf, 2)) = 200
      /\ Len(log) = 1
      /\ log[1].title = SinglePayload(c.arg.buf, 2)

\* --------------------------------------------------------------- C4
\* C4 (TitleRecord invariant): every record in the log has a title of 1 to
\* 200 bytes, each in 32..126.
C4_TitleRecordInvariant ==
  \A k \in 1..Len(log) :
    /\ Len(log[k].title) >= 1
    /\ Len(log[k].title) <= 200
    /\ AllPrintable(log[k].title)

\* C4's case: a title cut to 200 bytes from a longer payload whose later
\* bytes are not printable is in the log.
C4_Witness ==
  /\ Len(log) = 1
  /\ Len(log[1].title) = 200
  /\ \E k \in 1..200 : log[1].title[k] = 120
  /\ \E t \in Threads :
       /\ cur[t].returned
       /\ LeadAt(cur[t].arg.buf, cur[t].n, 0)
       /\ ~AllPrintable(SubSeq(cur[t].arg.buf, 5, cur[t].n - 1))

\* --------------------------------------------------------------- C5
\* C5 (Toggle gating): a call appends records only if the variable, read
\* at that call, is exactly "1"; otherwise it appends nothing and still
\* forwards and returns n.  Every call on stdout/stderr that wrote n > 0
\* bytes reads the variable afresh.  So a buffer with one well-formed
\* sequence sent twice, toggle off then on, appends nothing the first time
\* and one record the second time.
C5_GatingState ==
  \A t \in Threads :
    LET c == cur[t]
    IN  /\ c.appended # <<>> => c.asked /\ IsOne(c.envSeen)
        /\ c.scanned => c.asked /\ IsOne(c.envSeen)
        /\ ( /\ c.returned /\ StdFd(c.arg.fd) /\ ~c.arg.isNull
             /\ c.arg.count > 0 /\ c.n > 0 ) => c.asked
        /\ c.returned /\ ~(c.asked /\ IsOne(c.envSeen)) =>
             /\ c.appended = <<>>
             /\ c.forwarded = 1
             /\ c.ret = c.n
        /\ ( /\ c.returned /\ c.asked /\ IsOne(c.envSeen)
             /\ c.n = c.arg.count /\ IsSingle(c.arg.buf, 1)
             /\ CanLog(c.world, SinglePayload(c.arg.buf, 1)) )
           => Len(c.appended) = 1

C5_GatingStep ==
  /\ log' # log => IsOne(env)
  /\ \A t \in Threads :
       ~cur[t].asked /\ cur'[t].asked => cur'[t].envSeen = env

\* C5 (Toggle gating), state and step parts together: in every state the
\* calls that found the toggle other than "1" have appended nothing and
\* returned n, and every step that appends happens with the toggle "1",
\* read at that call.
C5_ToggleGating == [](C5_GatingState) /\ [][C5_GatingStep]_vars

\* C5's case: the second of two identical calls; the first found the
\* toggle off and appended nothing, the second found "1" and appended one
\* record.
C5_Witness ==
  LET c == cur[1]
  IN  /\ c.returned /\ c.repeatsOff
      /\ c.asked /\ IsOne(c.envSeen)
      /\ IsSingle(c.arg.buf, 1)
      /\ Len(c.appended) = 1
      /\ log = c.appended

\* --------------------------------------------------------------- C6
\* the candidate at offset i of the first n bytes is one to drop: it has no
\* terminator, or an empty payload, or a kept payload byte outside 32..126
Dropped(buf, n, i) ==
  /\ LeadAt(buf, n, i)
  /\ \/ EndsFrom(buf, n, i) = {}
     \/ FirstEnd(buf, n, i) = i + 4
     \/ ~AllPrintable(Kept(buf, n, i))

\* C6 (Silent drop): a candidate without a terminator in the written
\* bytes, with an empty payload, or with a kept payload byte outside
\* 32..126 yields no title and appends no record; the call returns n.
C6_SilentDrop ==
  \A t \in Threads :
    LET c == cur[t]
    IN  c.returned =>
          /\ c.ret = c.n
          /\ FromFound(c)
          /\ \A i \in LeadOffsets(c.arg.buf, c.n) :
               Dropped(c.arg.buf, c.n, i) =>
                 \A j \in 1..Len(c.found) : c.found[j].at # i

\* C6's case: a scanned buffer with a candidate dropped for each reason
\* is too much for one buffer; this one has a candidate with a byte 0x01
\* dropped while the candidate after it is logged.
C6_Witness ==
  LET c == cur[1]
  IN  /\ c.returned /\ c.scanned
      /\ Dropped(c.arg.buf, c.n, 0)
      /\ EndsFrom(c.arg.buf, c.n, 0) # {}
      /\ FirstEnd(c.arg.buf, c.n, 0) > 4
      /\ c.arg.buf[5] = 1
      /\ Len(c.appended) = 1
      /\ c.found[1].at > 0
      /\ c.ret = c.n

\* C6's second case: an unterminated candidate in a partly written buffer
\* (the terminator lies behind the n bytes written) appends nothing.
C6_WitnessUnterminated ==
  LET c == cur[1]
  IN  /\ c.returned /\ c.scanned
      /\ c.n < c.arg.count
      /\ LeadAt(c.arg.buf, c.n, 0)
      /\ EndsFrom(c.arg.buf, c.n, 0) = {}
      /\ EndsFrom(c.arg.buf, c.arg.count, 0) # {}
      /\ c.appended = <<>>

\* --------------------------------------------------------------- C7
\* the candidate at i is terminated, its payload is longer than 200 bytes
\* and the first 200 are printable
LongCandidate(buf, n, i) ==
  /\ LeadAt(buf, n, i)
  /\ EndsFrom(buf, n, i) # {}
  /\ FirstEnd(buf, n, i) - (i + 4) > 200
  /\ AllPrintable(SubSeq(buf, i + 5, i + 204))

\* C7 (Truncation): a terminated candidate whose payload is longer than
\* 200 bytes and whose first 200 bytes are printable yields the title made
\* of those 200 bytes, whatever follows them; that title is the one logged
\* for it (when the log file opens and the line fits).
C7_Truncation ==
  \A t \in Threads :
    LET c == cur[t]
    IN  ( c.returned /\ IsOne(env) /\ StdFd(c.arg.fd) /\ c.n > 0 ) =>
          \A i \in LeadOffsets(c.arg.buf, c.n) :
            LongCandidate(c.arg.buf, c.n, i) =>
              LET first200 == SubSeq(c.arg.buf, i + 5, i + 204)
              IN  /\ \E j \in 1..Len(c.found) :
                       c.found[j].at = i /\ c.found[j].title = first200
                  /\ CanLog(c.world, first200) =>
                       \E k \in 1..Len(c.appended) :
                         /\ c.appended[k].title = first200
                         /\ Len(c.appended[k].title) = 200

\* C7's case: a payload of 201 bytes whose last byte is 0x01, logged as
\* its first 200 bytes.
C7_Witness ==
  LET c == cur[1]
  IN  /\ c.returned
      /\ LongCandidate(c.arg.buf, c.n, 0)
      /\ FirstEnd(c.arg.buf, c.n, 0) = 205
      /\ c.arg.buf[205] = 1
      /\ Len(log) = 1
      /\ log[1].title = SubSeq(c.arg.buf, 5, 204)

\* --------------------------------------------------------------- C8
\* C8 (Single resolution): the resolution runs at most once; a caller is
\* past pthread_once only when it has completed; no thread forwards
\* through a NULL original; every forward goes through the one resolved
\* value; once set the value is never assigned again.
C8_ResolutionState ==
  /\ resolved <= 1
  /\ init_once = "DONE" => original_write = "libc_write" /\ resolved = 1
  /\ \A t \in Threads :
       /\ pc[t] \in {"fwd", "scan"} =>
            init_once = "DONE" /\ original_write # "NULL"
       /\ \A k \in 1..Len(cur[t].sys) :
            cur[t].sys[k].op = "forward" => cur[t].sys[k].via = "libc_write"
  /\ alive # "fault"
  /\ Cardinality({p \in Procs : pc[p] = "init"}) <= 1

C8_ResolutionStep ==
  /\ original_write # "NULL" => original_write' = original_write
  /\ init_once = "DONE" => init_once' = "DONE"
  /\ resolved' >= resolved

\* C8 (Single resolution), state and step parts together: at most one
\* resolution ever runs, no call forwards through NULL, and the resolved
\* value, once set, never changes.
C8_SingleResolution == [](C8_ResolutionState) /\ [][C8_ResolutionStep]_vars

\* C8's case: every thread is inside its first call of write at once, all
\* past pthread_once, after one resolution.
C8_Witness ==
  /\ resolved = 1
  /\ \A t \in Threads :
       /\ pc[t] = "scan"
       /\ ~cur[t].repeatsOff
       /\ cur[t].entered = 1
  /\ pc[Loader] = "once"

\* --------------------------------------------------------------- C9
\* the calls a call made below the shim after the forward
LogCalls(c) == SubSeq(c.sys, 2, Len(c.sys))

\* C9 (Logger bypass): every record is written by one call of the
\* original primitive on a log handle opened just before and closed just
\* after; the shim is entered once per call of write, never by the logger;
\* no handle opened during a call is open when the call has returned,
\* whether the record was written or dropped.
C9_LoggerBypass ==
  /\ openFds = {0, 1, 2}
  /\ \A t \in Threads :
       LET c  == cur[t]
           lc == LogCalls(c)
       IN  /\ Forwarded(t) => c.entered = 1
           /\ Cardinality({k \in 1..Len(lc) : lc[k].op = "write"})
                = Len(c.appended)
           /\ \A k \in 1..Len(lc) :
                /\ lc[k].op = "write" =>
                     /\ lc[k].via = "original_write"
                     /\ k > 1 /\ lc[k - 1].op = "open"
                     /\ lc[k - 1].fd = lc[k].fd /\ lc[k].fd > 2
                     /\ k < Len(lc) /\ lc[k + 1].op = "close"
                     /\ lc[k + 1].fd = lc[k].fd
                /\ lc[k].op = "open" /\ lc[k].fd >= 0 =>
                     \E m \in {k + 1, k + 2} :
                       /\ m <= Len(lc)
                       /\ lc[m].op = "close" /\ lc[m].fd = lc[k].fd
                /\ lc[k].op = "close" =>
                     \E m \in {k - 1, k - 2} :
                       /\ m >= 1
                       /\ lc[m].op = "open" /\ lc[m].fd = lc[k].fd

\* C9's case: a call that wrote one record and dropped another (the log
\* file opened, the second line did not fit), both handles closed.
C9_Witness ==
  LET c == cur[1]
  IN  /\ c.returned
      /\ Len(c.found) = 2
      /\ Len(c.appended) = 1
      /\ c.world.openOK
      /\ Len(LogCalls(c)) = 5
      /\ openFds = {0, 1, 2}

\* -------------------------------------------------------------- C10
\* C10 (Scan continuation): after a title is yielded the scan goes on
\* behind the consumed terminator, and markers inside the consumed region
\* (the part of a payload cut off by the truncation included) are not
\* examined again: the titles a call yields come from disjoint stretches
\* of the buffer, in the buffer's order.
C10_NoByteInTwoRecords ==
  \A t \in Threads :
    LET c == cur[t]
    IN  c.returned =>
          \A j \in 1..Len(c.found) : \A k \in 1..Len(c.found) :
            j < k => c.found[j].end < c.found[k].at

\* C10's part that the code keeps: the titles are yielded, and the records
\* appended, in the order of their markers in the buffer.
C10_InBufferOrder ==
  \A t \in Threads :
    LET c == cur[t]
    IN  c.returned =>
          /\ \A j \in 1..Len(c.found) : \A k \in 1..Len(c.found) :
               j < k => c.found[j].at < c.found[k].at
          /\ CanLog(c.world, <<>>) /\ Len(c.appended) = Len(c.found) =>
               Titles(c.appended) = Titles(c.found)

====
